---- MODULE Spec2Model ----
(***************************************************************************)
(* Verification model of starfield.py: the colour gradient helper, the     *)
(* Star and ShootingStar classes, the AudioAnalyzer start-up and the main  *)
(* loop (event handling, per-frame update and drawing, clean-up).          *)
(*                                                                         *)
(* Numbers.  The program computes with Python floats.  The model uses      *)
(* fixed point: lengths, depths, speeds and steering offsets are integers  *)
(* counting tenths (the near-plane threshold 0.9 is 9, BASE_SPEED 0.8 is   *)
(* 8, BOOST_MULT 3.5 is 35), the gradient argument t counts thousandths,   *)
(* angles count hundredths of a radian.  A float product or quotient is    *)
(* the exact rational result rounded to the nearest unit of the model's    *)
(* resolution (Round); int() is truncation toward zero (IntTrunc).         *)
(***************************************************************************)
EXTENDS Integers, Sequences, FiniteSets, TLC

VARIABLES
    t, col,                       \* color_gradient: argument and result
    star, hist, respawned,        \* one Star; points returned since its respawn
    stars,                        \* main: the list of Star objects
    shooting, removed,            \* active ShootingStar list; removed this frame
    pc, running, pending, dt,
    AUDIO_AVAILABLE, stream_ok, audio_analyzer, audio_enabled,
    trails_enabled, color_mode, spiral_enabled,
    steer_x, steer_y, rotation, spiral,
    trail_surf, draws, composited, hud_audio

vars == <<t, col, star, hist, respawned, stars, shooting, removed, pc, running,
          pending, dt, AUDIO_AVAILABLE, stream_ok, audio_analyzer,
          audio_enabled, trails_enabled, color_mode, spiral_enabled,
          steer_x, steer_y, rotation, spiral, trail_surf, draws, composited,
          hud_audio>>

colorVars == <<t, col>>
starVars == <<star, hist, respawned>>
shootVars == <<shooting, removed>>
mainVars == <<stars, pc, running, pending, dt, AUDIO_AVAILABLE, stream_ok,
              audio_analyzer, audio_enabled, trails_enabled, color_mode,
              spiral_enabled, steer_x, steer_y, rotation, spiral, trail_surf,
              draws, composited, hud_audio>>

Max(a, b) == IF a >= b THEN a ELSE b
Min(a, b) == IF a <= b THEN a ELSE b

\* v / den rounded to the nearest integer, ties away from zero
Round(v, den) ==
    IF v >= 0 THEN (2 * v + den) \div (2 * den) ELSE -((2 * (-v) + den) \div (2 * den))

\* int(): truncation toward zero, of v counted in units of 1/den
IntTrunc(v, den) == IF v >= 0 THEN v \div den ELSE -((-v) \div den)

(***************************************************************************)
(* Helpers (lines 51-86)                                                   *)
(***************************************************************************)
clamp(v, a, b) == Max(a, Min(b, v))

\* a + (b - a) * tt for tt = num/den; the result counts units of 1/den
lerp(a, b, num, den) == a * den + (b - a) * num

\* color_gradient without the upper clamp of lines 61-62
color_gradient_noclamp(t0) ==
    LET t2 == IF t0 < 0 THEN 0 ELSE t0
    IN  IF t2 < 330
        THEN <<IntTrunc(lerp(80, 255, t2, 330), 330),
               IntTrunc(lerp(120, 255, t2, 330), 330),
               IntTrunc(lerp(200, 255, t2, 330), 330)>>
        ELSE IF t2 < 660
        THEN <<IntTrunc(lerp(255, 255, t2 - 330, 330), 330),
               IntTrunc(lerp(255, 220, t2 - 330, 330), 330),
               IntTrunc(lerp(255, 80, t2 - 330, 330), 330)>>
        ELSE <<IntTrunc(lerp(255, 255, t2 - 660, 340), 340),
               IntTrunc(lerp(220, 100, t2 - 660, 340), 340),
               IntTrunc(lerp(80, 40, t2 - 660, 340), 340)>>

\* color_gradient with the second threshold 0.66 mistyped as 0.6
color_gradient_threshold(t0) ==
    LET t1 == IF t0 < 0 THEN 0 ELSE t0
        t2 == IF t1 > 1000 THEN 1000 ELSE t1
    IN  IF t2 < 330
        THEN <<IntTrunc(lerp(80, 255, t2, 330), 330),
               IntTrunc(lerp(120, 255, t2, 330), 330),
               IntTrunc(lerp(200, 255, t2, 330), 330)>>
        ELSE IF t2 < 600
        THEN <<IntTrunc(lerp(255, 255, t2 - 330, 330), 330),
               IntTrunc(lerp(255, 220, t2 - 330, 330), 330),
               IntTrunc(lerp(255, 80, t2 - 330, 330), 330)>>
        ELSE <<IntTrunc(lerp(255, 255, t2 - 660, 340), 340),
               IntTrunc(lerp(220, 100, t2 - 660, 340), 340),
               IntTrunc(lerp(80, 40, t2 - 660, 340), 340)>>

\* t in thousandths; the thresholds 0.33 and 0.66 are 330 and 660
color_gradient(t0) ==
    LET t1 == IF t0 < 0 THEN 0 ELSE t0
        t2 == IF t1 > 1000 THEN 1000 ELSE t1
    IN  IF t2 < 330
        THEN <<IntTrunc(lerp(80, 255, t2, 330), 330),
               IntTrunc(lerp(120, 255, t2, 330), 330),
               IntTrunc(lerp(200, 255, t2, 330), 330)>>
        ELSE IF t2 < 660
        THEN <<IntTrunc(lerp(255, 255, t2 - 330, 330), 330),
               IntTrunc(lerp(255, 220, t2 - 330, 330), 330),
               IntTrunc(lerp(255, 80, t2 - 330, 330), 330)>>
        ELSE <<IntTrunc(lerp(255, 255, t2 - 660, 340), 340),
               IntTrunc(lerp(220, 100, t2 - 660, 340), 340),
               IntTrunc(lerp(80, 40, t2 - 660, 340), 340)>>

(***************************************************************************)
(* Config (lines 37-43).  WIDTH, HEIGHT and NUM_STARS are scaled down from *)
(* 1000, 700 and 700; Star takes the sizes as constructor arguments.       *)
(***************************************************************************)
WIDTH == 8
HEIGHT == 6
NUM_STARS == 1
BASE_SPEED == 8
BOOST_MULT == 35
TRAIL_LENGTH == 6
\* the near-plane threshold 0.9 of Star.update, in tenths
NEAR == 9

(***************************************************************************)
(* class Star (lines 89-131)                                               *)
(***************************************************************************)
\* math.cos and math.sin of an angle counted in hundredths of a radian, in
\* thousandths: the series 1 - r^2/2 and r - r^3/6, exact to a thousandth
\* for the angles of at most 0.3 rad that the model passes
Cos(rc) == 1000 - (rc * rc) \div 20
Sin(rc) == 10 * rc - (rc * rc * rc) \div 6000

\* Star.reset given the values drawn from random.uniform
Reset(self, rnd) ==
    [self EXCEPT !.x = rnd.x, !.y = rnd.y, !.z = rnd.z, !.prev = <<>>,
                 !.base_size = rnd.base_size, !.brightness = rnd.brightness,
                 !.is_shooting = FALSE]

\* Star.__init__
NewStar(width, height, rnd) ==
    Reset([w |-> width, h |-> height, x |-> 0, y |-> 0, z |-> 0, prev |-> <<>>,
           base_size |-> 0, brightness |-> 0, is_shooting |-> FALSE], rnd)

\* lines 107-112: rotate (x, y) around the origin
Rotated(self, rot) ==
    IF rot # 0
    THEN [self EXCEPT
            !.x = Round(self.x * Cos(rot) - self.y * Sin(rot), 1000),
            !.y = Round(self.x * Sin(rot) + self.y * Cos(rot), 1000)]
    ELSE self

\* lines 115-117: x, y *= 1 - spiral * 0.0006, spiral in hundredths
Spiralled(self, spir) ==
    IF spir # 0
    THEN [self EXCEPT !.x = Round(self.x * (1000000 - 6 * spir), 1000000),
                      !.y = Round(self.y * (1000000 - 6 * spir), 1000000)]
    ELSE self

\* the respawn test with < for <=
ReachedViewer_strict(z) == z < NEAR

\* line 121: the respawn test
ReachedViewer(z) == z <= NEAR

\* lines 120-123: approach the viewer; respawn far away at the near plane.
\* rnd.far is the draw of random.uniform(w * 0.6, w)
Approached(self, speed, rnd) ==
    LET moved == [self EXCEPT !.z = self.z - speed]
    IN  IF ReachedViewer(moved.z)
        THEN [Reset(moved, rnd) EXCEPT !.z = rnd.far]
        ELSE moved

\* lines 125-126: perspective projection plus the steering offset, in tenths
ProjectX(self, offset_x) == Round(self.x * 5 * self.w, self.z) + 5 * self.w + offset_x
ProjectY(self, offset_y) == Round(self.y * 5 * self.h, self.z) + 5 * self.h + offset_y

\* the trail with the length test off by one
Recorded_offbyone(prev, p) ==
    LET ins == <<p>> \o prev
    IN  IF Len(ins) > TRAIL_LENGTH + 1 THEN SubSeq(ins, 1, Len(ins) - 1) ELSE ins

\* the trail with pop(0) for pop(): the newest point is dropped
Recorded_popfirst(prev, p) ==
    LET ins == <<p>> \o prev
    IN  IF Len(ins) > TRAIL_LENGTH THEN SubSeq(ins, 2, Len(ins)) ELSE ins

\* lines 128-130: prev.insert(0, p); if len(prev) > TRAIL_LENGTH: prev.pop()
Recorded(prev, p) ==
    LET ins == <<p>> \o prev
    IN  IF Len(ins) > TRAIL_LENGTH THEN SubSeq(ins, 1, Len(ins) - 1) ELSE ins

\* Star.update: the star after the call (self) and the tuple it returns (ret)
Update(self, speed, offset_x, offset_y, rot, spir, rnd) ==
    LET placed == Approached(Spiralled(Rotated(self, rot), spir), speed, rnd)
        sx == ProjectX(placed, offset_x)
        sy == ProjectY(placed, offset_y)
    IN  [self |-> [placed EXCEPT !.prev = Recorded(placed.prev, <<sx, sy, placed.z>>)],
         ret |-> <<sx, sy, placed.z>>]

(***************************************************************************)
(* Parked values of the variables a specification does not use             *)
(***************************************************************************)
NoDraw == [x |-> 0, y |-> 0, z |-> 10, far |-> 10, base_size |-> 8, brightness |-> 10]

ParkColor == t = 0 /\ col = <<0, 0, 0>>
ParkStar == star = NewStar(WIDTH, HEIGHT, NoDraw) /\ hist = <<>> /\ respawned = FALSE
ParkShoot == shooting = <<>> /\ removed = <<>>
ParkMain ==
    /\ stars = <<>> /\ pc = "off" /\ running = FALSE /\ pending = 0 /\ dt = 0
    /\ AUDIO_AVAILABLE = FALSE /\ stream_ok = FALSE /\ audio_analyzer = [exists |-> FALSE]
    /\ audio_enabled = FALSE /\ trails_enabled = FALSE /\ color_mode = FALSE
    /\ spiral_enabled = FALSE /\ steer_x = 0 /\ steer_y = 0 /\ rotation = 0
    /\ spiral = 0 /\ trail_surf = 0 /\ draws = {} /\ composited = FALSE
    /\ hud_audio = "none"

(***************************************************************************)
(* SpecColor: color_gradient applied to every t of a grid of thousandths   *)
(***************************************************************************)
TMargin == 50
TGrid == (0 - TMargin) .. (1000 + TMargin)

InitColor == t = 0 /\ col = color_gradient(0) /\ ParkStar /\ ParkShoot /\ ParkMain

Evaluate ==
    /\ \E u \in TGrid : t' = u /\ col' = color_gradient(u)
    /\ UNCHANGED <<starVars, shootVars, mainVars>>

SpecColor == InitColor /\ [][Evaluate]_vars

\* C8: color_gradient is clamped: every t <= 0 gives the blue endpoint
\* (80, 120, 200), the value at t = 0, every t >= 1 gives the red endpoint
\* (255, 100, 40), the value at t = 1, and every channel is an integer in
\* 0..255.
C8_Clamped ==
    /\ t <= 0 => col = <<80, 120, 200>> /\ col = color_gradient(0)
    /\ t >= 1000 => col = <<255, 100, 40>> /\ col = color_gradient(1000)
    /\ \A c \in 1..3 : col[c] \in 0..255

C8_Witness == t > 1000 /\ col = <<255, 100, 40>>

\* the segment of the gradient that u (0..1000) falls in
Segment(u) == IF u < 330 THEN 1 ELSE IF u < 660 THEN 2 ELSE 3

\* channel c is non-decreasing, or non-increasing, over the segment of t,
\* seen from the evaluated point (t, col)
MonotonicAt(c) ==
    LET S == {u \in 0..1000 : Segment(u) = Segment(t)}
    IN  \/ \A u \in S : /\ u <= t => color_gradient(u)[c] <= col[c]
                        /\ u >= t => color_gradient(u)[c] >= col[c]
        \/ \A u \in S : /\ u <= t => color_gradient(u)[c] >= col[c]
                        /\ u >= t => color_gradient(u)[c] <= col[c]

Monotonic == t \in 0..1000 => \A c \in 1..3 : MonotonicAt(c)

\* C9 as stated: the value approached at the end of blue->white (the last
\* grid point below 0.33) is the value at 0.33, (255, 255, 255); the value
\* approached at the end of white->yellow is the value at 0.66,
\* (255, 220, 80); each channel is monotonic inside each segment.
C9_Original ==
    /\ t = 329 => col = <<255, 255, 255>> /\ col = color_gradient(330)
    /\ t = 659 => col = <<255, 220, 80>> /\ col = color_gradient(660)
    /\ Monotonic

\* C9 amended: below 0.33 the truncation int() leaves every channel one
\* unit under the value (255, 255, 255) at 0.33, so the value approached is
\* (254, 254, 254); the value approached at the end of white->yellow is the
\* value at 0.66, (255, 220, 80); each channel is monotonic inside each
\* segment.
C9_Amended ==
    /\ t = 329 => /\ col = <<254, 254, 254>>
                  /\ \A c \in 1..3 : color_gradient(330)[c] - col[c] = 1
    /\ t = 659 => col = <<255, 220, 80>> /\ col = color_gradient(660)
    /\ Monotonic

C9_Witness == t = 329 /\ col = <<254, 254, 254>>

(***************************************************************************)
(* SpecStar: one Star, constructed and then updated with arbitrary         *)
(* arguments.  hist is the sequence of tuples update has returned since    *)
(* the star was last respawned (or constructed), oldest first; respawned   *)
(* tells whether the last call took the respawn branch.                    *)
(***************************************************************************)
\* cap on the number of updates between two respawns
MaxHist == 8

\* draws of random.uniform in reset (x, y, z, base_size, brightness) and of
\* the far depth in update, inside the ranges of lines 97-102 and 123
StarDraws ==
    {[x |-> 0 - 10 * WIDTH, y |-> 10 * HEIGHT, z |-> 10, far |-> 6 * WIDTH + 1,
      base_size |-> 8, brightness |-> 6],
     [x |-> 3 * WIDTH, y |-> 0 - 2 * HEIGHT, z |-> 65, far |-> 10 * WIDTH,
      base_size |-> 32, brightness |-> 10]}

\* arguments of update: speed, offsets (tenths), rotation and spiral
\* (hundredths)
UpdateArgs ==
    {[speed |-> BASE_SPEED, offset_x |-> 0, offset_y |-> 0, rotation |-> 0, spiral |-> 0],
     [speed |-> 5 * BASE_SPEED, offset_x |-> 313, offset_y |-> 0 - 188, rotation |-> 4, spiral |-> 30],
     [speed |-> 0 - BASE_SPEED, offset_x |-> 0 - 313, offset_y |-> 0, rotation |-> 0, spiral |-> 0]}

InitStar ==
    /\ \E rnd \in StarDraws : star = NewStar(WIDTH, HEIGHT, rnd)
    /\ hist = <<>> /\ respawned = FALSE
    /\ ParkColor /\ ParkShoot /\ ParkMain

StarUpdate ==
    /\ \E a \in UpdateArgs, rnd \in StarDraws :
          LET r == Update(star, a.speed, a.offset_x, a.offset_y, a.rotation, a.spiral, rnd)
              respawn == ReachedViewer(star.z - a.speed)
          IN  /\ respawn \/ Len(hist) < MaxHist
              /\ star.z - a.speed <= 10 * star.w
              /\ star' = r.self
              /\ hist' = IF respawn THEN <<r.ret>> ELSE Append(hist, r.ret)
              /\ respawned' = respawn
    /\ UNCHANGED <<colorVars, shootVars, mainVars>>

SpecStar == InitStar /\ [][StarUpdate]_vars

\* C1: when update returns, z is strictly greater than the near-plane
\* threshold 0.9: either z - speed > 0.9, or the star was respawned and its z
\* redrawn from [0.6 * width, width]; it also holds after construction.
C1_AboveNearPlane ==
    /\ star.z > NEAR
    /\ respawned => star.z >= 6 * star.w /\ star.z <= 10 * star.w

C1_Witness == respawned /\ star.z > NEAR /\ Len(star.prev) = 1

\* C6: the trail history prev never holds more than TRAIL_LENGTH entries.
C6_TrailBounded == Len(star.prev) <= TRAIL_LENGTH

\* the trail is full and an older point has been dropped
C6_Witness == Len(star.prev) = TRAIL_LENGTH /\ Len(hist) > TRAIL_LENGTH

\* C10: prev is the newest-first queue of the points returned since the last
\* respawn: prev[1] is the point just returned, prev[i] the point returned
\* i - 1 updates earlier, only the oldest points beyond TRAIL_LENGTH are
\* missing, and an update that respawns leaves exactly one entry.
C10_TrailIsHistory ==
    /\ Len(star.prev) = Min(Len(hist), TRAIL_LENGTH)
    /\ \A i \in 1..Len(star.prev) : star.prev[i] = hist[Len(hist) - i + 1]
    /\ respawned => Len(star.prev) = 1

\* a respawn has happened, then more than TRAIL_LENGTH updates
C10_Witness ==
    /\ Len(hist) > TRAIL_LENGTH /\ ~respawned
    /\ star.prev[TRAIL_LENGTH] = hist[Len(hist) - TRAIL_LENGTH + 1]
    /\ hist[1][3] >= 6 * star.w

(***************************************************************************)
(* class ShootingStar (lines 133-163) and its handling in main (347-362)   *)
(***************************************************************************)
\* the bounds of random.randint(80, 160) for life, scaled down
MinLife == 2
MaxLife == 4
\* cap on the number of simultaneously active shooting stars
MaxShooting == 3

\* ShootingStar.__init__ given the edge and the values drawn; id tells the
\* objects of the list apart (Python compares them by identity)
NewShootingStar(width, height, d, ident) ==
    [w |-> width, h |-> height, id |-> ident,
     x |-> IF d.edge = "top" THEN d.along
           ELSE IF d.edge = "left" THEN 0 - 20 ELSE width + 20,
     y |-> IF d.edge = "top" THEN 0 - 20 ELSE d.along,
     vx |-> d.vx, vy |-> d.vy, life |-> d.life, age |-> 0,
     length |-> d.length, color |-> <<255, 220, 180>>]

\* ShootingStar.update: the moved star
ShootingMoved(s) == [s EXCEPT !.x = s.x + s.vx, !.y = s.y + s.vy, !.age = s.age + 1]

\* the return value with <= for <
Alive_late(s) == s.age <= s.life

\* ShootingStar.update: its return value, computed on the moved star
Alive(s) == s.age < s.life

\* lines 352-362: update every star of the list, remove the dead ones
ShootingUpdated(list) ==
    LET moved == [i \in 1..Len(list) |-> ShootingMoved(list[i])]
    IN  [kept |-> SelectSeq(moved, Alive),
         dead |-> SelectSeq(moved, LAMBDA s : ~Alive(s))]

\* lines 357-362: the streak and the head drawn for a live shooting star
ShootingDraws(list) ==
    UNION {{[surf |-> "screen", kind |-> "streak", col |-> list[i].color,
             from |-> <<list[i].x, list[i].y>>,
             to |-> <<list[i].x - list[i].vx * 3, list[i].y - list[i].vy * 3>>,
             size |-> 2],
            [surf |-> "screen", kind |-> "head", col |-> <<255, 255, 255>>,
             from |-> <<list[i].x, list[i].y>>, to |-> <<list[i].x, list[i].y>>,
             size |-> 3]} : i \in 1..Len(list)}

FreshId(list) == CHOOSE n \in 1..(Len(list) + 1) : \A i \in 1..Len(list) : list[i].id # n

\* lines 347-362 for one frame: spawn tells whether random.random() fell
\* under SHOOTING_STAR_PROB, d holds the constructor's draws
ShootingStep(list, spawn, d) ==
    ShootingUpdated(IF spawn
                    THEN Append(list, NewShootingStar(WIDTH, HEIGHT, d, FreshId(list)))
                    ELSE list)

\* draws of the constructor inside the ranges of lines 138-156
ShootingChoices ==
    {[edge |-> "top", along |-> 0 - (WIDTH \div 4), vx |-> 6, vy |-> 6,
      life |-> MinLife, length |-> 40],
     [edge |-> "left", along |-> HEIGHT, vx |-> 12, vy |-> 0 - 3,
      life |-> MaxLife, length |-> 160],
     [edge |-> "right", along |-> 0, vx |-> 0 - 6, vy |-> 3,
      life |-> MinLife + (MaxLife - MinLife) \div 2, length |-> 100]}

(***************************************************************************)
(* SpecShoot: the shooting-star block of the frame, frame after frame      *)
(***************************************************************************)
InitShoot == shooting = <<>> /\ removed = <<>> /\ ParkColor /\ ParkStar /\ ParkMain

ShootingFrame ==
    /\ \E spawn \in BOOLEAN, d \in ShootingChoices :
          LET r == ShootingStep(shooting, spawn, d)
          IN  /\ spawn => Len(shooting) < MaxShooting
              /\ shooting' = r.kept
              /\ removed' = r.dead
    /\ UNCHANGED <<colorVars, starVars, mainVars>>

SpecShoot == InitShoot /\ [][ShootingFrame]_vars

\* C2: a shooting star leaves the list exactly in the frame whose update
\* makes its age equal to its life: every star removed in a frame has
\* age = life, no star of the list has age >= life at the end of a frame,
\* and a star whose age stays below life is still in the list, whatever the
\* number of active stars.
C2_RemovedAtLife ==
    [][/\ \A i \in 1..Len(shooting') : shooting'[i].age < shooting'[i].life
       /\ \A i \in 1..Len(removed') : removed'[i].age = removed'[i].life
       /\ \A i \in 1..Len(shooting) :
            IF shooting[i].age + 1 < shooting[i].life
            THEN \E j \in 1..Len(shooting') :
                    /\ shooting'[j].id = shooting[i].id
                    /\ shooting'[j].age = shooting[i].age + 1
            ELSE /\ \A j \in 1..Len(shooting') : shooting'[j].id # shooting[i].id
                 /\ \E j \in 1..Len(removed') : removed'[j].id = shooting[i].id]_vars

\* two stars were active and the one that reached its life was removed
\* while the other stayed
C2_Witness ==
    /\ Len(removed) = 1 /\ removed[1].age = removed[1].life
    /\ Len(shooting) = 1 /\ shooting[1].age >= 1

(***************************************************************************)
(* class AudioAnalyzer (lines 166-206)                                     *)
(***************************************************************************)
\* AudioAnalyzer.__init__: the except clause of lines 177-179 swallows a
\* failure of sd.InputStream, so the constructor always returns an object
NewAudioAnalyzer(ok) ==
    [exists |-> TRUE, running |-> ok, stream |-> IF ok THEN "open" ELSE "none",
     latest_level |-> 0, closed |-> FALSE]

\* the value None of the variable audio_analyzer (line 233)
None ==
    [exists |-> FALSE, running |-> FALSE, stream |-> "none", latest_level |-> 0,
     closed |-> FALSE]

\* AudioAnalyzer.close: stops and closes the stream if it was started; closed
\* tells that close has been called
Closed(a) ==
    [a EXCEPT !.closed = TRUE, !.stream = IF a.running THEN "closed" ELSE a.stream]

\* levels (tenths) the callback can store: clamp(val * 10.0, 0.0, 1.5)
LevelChoices == {clamp(40, 0, 15)}

(***************************************************************************)
(* main (lines 209-385)                                                    *)
(***************************************************************************)
\* events of one frame's pygame.event.get() list
MaxEvents == 2
\* the frame is not started once rotation has passed this many tenths
MaxRotation == 2
\* cap on the shooting stars that main keeps active at a time
MainShooting == 1

EventKinds == {"QUIT", "K_ESCAPE", "K_q", "K_s", "K_t", "K_c", "K_a", "K_other"}

\* milliseconds returned by clock.tick(FPS)
DtChoices == {125}

\* pygame.key.get_pressed(): the keys that main reads
KeyChoices ==
    {[right |-> 0, left |-> 0, up |-> 0, down |-> 0, space |-> FALSE],
     [right |-> 1, left |-> 0, up |-> 0, down |-> 1, space |-> TRUE]}

\* draws for the stars of main, inside the ranges of lines 97-102 and 123
MainStarDraws ==
    {[x |-> WIDTH, y |-> 5 * HEIGHT, z |-> 10 * WIDTH, far |-> 10 * WIDTH,
      base_size |-> 8, brightness |-> 10]}

\* random.uniform(0.8, 1.2) of line 317, in tenths
FlickerChoices == {8}

\* the constructor draws of the shooting stars of main
MainShootingChoices == {d \in ShootingChoices : d.edge = "top"}

\* lines 218-233 and 242: the state before the analyzer is created
InitMain ==
    /\ AUDIO_AVAILABLE \in BOOLEAN
    /\ stream_ok \in BOOLEAN
    /\ ~AUDIO_AVAILABLE => ~stream_ok
    /\ \E rnd \in [1..NUM_STARS -> MainStarDraws] :
          stars = [i \in 1..NUM_STARS |-> NewStar(WIDTH, HEIGHT, rnd[i])]
    /\ shooting = <<>> /\ removed = <<>>
    /\ steer_x = 0 /\ steer_y = 0 /\ rotation = 0 /\ spiral = 0
    /\ trails_enabled = TRUE /\ color_mode = TRUE /\ spiral_enabled = FALSE
    /\ audio_enabled = FALSE /\ audio_analyzer = None
    /\ running = TRUE /\ pc = "setup" /\ pending = 0 /\ dt = 0
    /\ trail_surf = 0 /\ draws = {} /\ composited = FALSE /\ hud_audio = "none"
    /\ ParkColor /\ ParkStar

\* lines 234-240: create the analyzer; audio_enabled follows its truth value
SetupAudio ==
    /\ pc = "setup"
    /\ audio_analyzer' = IF AUDIO_AVAILABLE THEN NewAudioAnalyzer(stream_ok) ELSE None
    /\ audio_enabled' = audio_analyzer'.exists
    /\ pc' = "top"
    /\ UNCHANGED <<colorVars, starVars, shootVars, stars, running, pending, dt,
                   AUDIO_AVAILABLE, stream_ok, trails_enabled, color_mode,
                   spiral_enabled, steer_x, steer_y, rotation, spiral,
                   trail_surf, draws, composited, hud_audio>>

\* AudioAnalyzer._callback, run by the audio library while the stream is open
AudioCallback ==
    /\ pc \in {"top", "events"}
    /\ audio_analyzer.exists
    /\ audio_analyzer.stream = "open"
    /\ \E lvl \in LevelChoices : audio_analyzer' = [audio_analyzer EXCEPT !.latest_level = lvl]
    /\ UNCHANGED <<colorVars, starVars, shootVars, stars, pc, running, pending, dt,
                   AUDIO_AVAILABLE, stream_ok, audio_enabled, trails_enabled,
                   color_mode, spiral_enabled, steer_x, steer_y, rotation,
                   spiral, trail_surf, draws, composited, hud_audio>>

\* the loop test without the test
LoopTest_always(r) == TRUE

\* line 246: while running
LoopTest(r) == r

\* lines 246-251: the loop test, clock.tick and pygame.event.get().  pending
\* counts the events of the list not yet iterated; the kind of each is drawn
\* when the for loop reaches it
BeginFrame ==
    /\ pc = "top" /\ LoopTest(running)
    /\ rotation <= MaxRotation
    /\ dt' \in DtChoices
    /\ pending' \in 0..MaxEvents
    /\ pc' = "events"
    /\ UNCHANGED <<colorVars, starVars, shootVars, stars, running,
                   AUDIO_AVAILABLE, stream_ok, audio_analyzer, audio_enabled,
                   trails_enabled, color_mode, spiral_enabled, steer_x,
                   steer_y, rotation, spiral, trail_surf, draws, composited,
                   hud_audio>>

\* the toggle without the fill of line 262
TrailAfterToggle_nofill(enabled, surf) == surf

\* line 262 next to line 260: the trail surface after a K_t toggle
TrailAfterToggle(enabled, surf) == IF ~enabled THEN 0 ELSE surf

\* lines 252-271: the body of the event loop for one event
HandleEvent ==
    /\ pc = "events" /\ pending > 0
    /\ pending' = pending - 1
    /\ \E e \in EventKinds :
          /\ running' = IF e \in {"QUIT", "K_ESCAPE", "K_q"} THEN FALSE ELSE running
          /\ spiral_enabled' = IF e = "K_s" THEN ~spiral_enabled ELSE spiral_enabled
          /\ trails_enabled' = IF e = "K_t" THEN ~trails_enabled ELSE trails_enabled
          /\ trail_surf' = IF e = "K_t"
                           THEN TrailAfterToggle(trails_enabled', trail_surf)
                           ELSE trail_surf
          /\ color_mode' = IF e = "K_c" THEN ~color_mode ELSE color_mode
          /\ audio_enabled' = IF e = "K_a" /\ AUDIO_AVAILABLE /\ audio_analyzer.exists
                              THEN ~audio_enabled ELSE audio_enabled
    /\ UNCHANGED <<colorVars, starVars, shootVars, stars, pc, dt,
                   AUDIO_AVAILABLE, stream_ok, audio_analyzer, steer_x,
                   steer_y, rotation, spiral, draws, composited, hud_audio>>

\* lines 276-277: steering, tenths of a pixel, dt in milliseconds
Steer(dir, gain, steer, ms) == Round(dir * gain * 10 * ms + steer * (1000 - 8 * ms), 1000)

\* lines 283-288: rotation (tenths of a radian) and spiral (tenths)
RotationAfter(enabled, rot, ms) ==
    IF enabled THEN rot + Round(8 * ms, 1000) ELSE Round(rot * 98, 100)
SpiralAfter(enabled, spir) == IF enabled THEN 5 ELSE Round(spir * 96, 100)

\* lines 291-295: the audio level of the frame, tenths
AudioLevel(enabled, analyzer) ==
    IF enabled /\ analyzer.exists THEN clamp(analyzer.latest_level, 0, 15) ELSE 0

\* lines 280 and 297: speed_mult, in thousandths
SpeedMult(boosting, enabled, analyzer, level) ==
    LET base == IF boosting THEN BOOST_MULT ELSE 10
    IN  IF enabled /\ analyzer.exists THEN base * (100 + 9 * level) ELSE base * 100

\* lines 312-317: the speed handed to star.update, tenths
StarSpeed(z, mult, enabled, level, u) ==
    LET speed == Round(BASE_SPEED * (10 * WIDTH + 4 * (10 * WIDTH - z)) * mult,
                          10 * WIDTH * 1000)
    IN  IF enabled THEN Round(speed * (1000 + 8 * level * u), 1000) ELSE speed

\* the guard with the test of sy forgotten
InScreen_xonly(sx, sy) == 0 <= sx /\ sx < 10 * WIDTH

\* line 321: the test that guards the drawing of a star
InScreen(sx, sy) == 0 <= sx /\ sx < 10 * WIDTH /\ 0 <= sy /\ sy < 10 * HEIGHT

\* line 322: depth_norm in thousandths
DepthNorm(sz) == clamp(Round(1000 * (10 * WIDTH - sz), 10 * WIDTH), 0, 1000)

\* lines 324-328: the colour of a star
StarColor(mode, depth, brightness) ==
    IF mode THEN color_gradient(Round(depth * brightness, 10))
    ELSE LET val == IntTrunc(lerp(60, 255, depth * brightness, 10000), 10000)
         IN  <<val, val, val>>

\* line 331: the radius of a star
StarSize(base_size, depth) == Max(1, IntTrunc(base_size * (10000 + 35 * depth), 100000))

\* int(sx), int(sy) of a point counted in tenths
Pixel(p) == <<IntTrunc(p[1], 10), IntTrunc(p[2], 10)>>

\* lines 337-343: the lines from the older trail points to the current point
TrailLines(prevs, ret, colr, size) ==
    IF Len(prevs) > 1
    THEN LET alpha_step == 180 \div Max(1, Len(prevs))
         IN  {[surf |-> "trail", kind |-> "line",
               col |-> colr \o <<Max(10, 200 - (i - 1) * alpha_step)>>,
               from |-> Pixel(prevs[i]), to |-> Pixel(ret),
               size |-> Max(1, size - (i - 1) \div 2)] : i \in 2..Len(prevs)}
    ELSE {}

\* lines 321-345: the draw calls for one updated star
StarDrawCalls(self, ret, trails, mode) ==
    IF InScreen(ret[1], ret[2])
    THEN LET depth == DepthNorm(ret[3])
             colr == StarColor(mode, depth, self.brightness)
             size == StarSize(self.base_size, depth)
         IN  IF trails
             THEN {[surf |-> "trail", kind |-> "circle", col |-> colr \o <<200>>,
                    from |-> Pixel(ret), to |-> Pixel(ret), size |-> size]}
                  \cup TrailLines(self.prev, ret, colr, size)
             ELSE {[surf |-> "screen", kind |-> "circle", col |-> colr,
                    from |-> Pixel(ret), to |-> Pixel(ret), size |-> size]}
    ELSE {}

\* lines 303-307, then the drawing of the frame: the greatest alpha left on
\* trail_surf
TrailSurfAfter(trails, surf, drawn) ==
    LET faded == IF trails THEN Max(0, surf - 28) ELSE 0
    IN  IF \E d \in drawn : d.surf = "trail" THEN Max(faded, 200) ELSE faded

\* lines 274-379: the rest of the frame once the events are handled
FrameBody ==
    /\ pc = "events" /\ pending = 0
    /\ \E keys \in KeyChoices, rnd \in [1..NUM_STARS -> MainStarDraws],
          u \in [1..NUM_STARS -> FlickerChoices], spawn \in BOOLEAN,
          d \in MainShootingChoices :
          LET sx1 == Steer(keys.right - keys.left, 250, steer_x, dt)
              sy1 == Steer(keys.down - keys.up, 150, steer_y, dt)
              rot1 == RotationAfter(spiral_enabled, rotation, dt)
              spir1 == SpiralAfter(spiral_enabled, spiral)
              level == AudioLevel(audio_enabled, audio_analyzer)
              mult == SpeedMult(keys.space, audio_enabled, audio_analyzer, level)
              upd == [i \in 1..NUM_STARS |->
                        Update(stars[i],
                               StarSpeed(stars[i].z, mult, audio_enabled, level, u[i]),
                               sx1, sy1, 4 * rot1, 6 * spir1, rnd[i])]
              stardraws == UNION {StarDrawCalls(upd[i].self, upd[i].ret, trails_enabled,
                                                color_mode) : i \in 1..NUM_STARS}
              sh == ShootingStep(shooting, spawn, d)
          IN  /\ spawn => Len(shooting) < MainShooting
              /\ steer_x' = sx1 /\ steer_y' = sy1
              /\ rotation' = rot1 /\ spiral' = spir1
              /\ stars' = [i \in 1..NUM_STARS |-> upd[i].self]
              /\ shooting' = sh.kept /\ removed' = sh.dead
              /\ draws' = stardraws \cup ShootingDraws(sh.kept)
              /\ trail_surf' = TrailSurfAfter(trails_enabled, trail_surf, stardraws)
              /\ composited' = trails_enabled
              /\ hud_audio' = IF audio_enabled THEN "ON" ELSE "OFF"
    /\ pc' = "top"
    /\ UNCHANGED <<colorVars, starVars, running, pending, dt, AUDIO_AVAILABLE,
                   stream_ok, audio_analyzer, audio_enabled, trails_enabled,
                   color_mode, spiral_enabled>>

\* lines 381-385: leave the loop, close the analyzer, exit
Cleanup ==
    /\ pc = "top" /\ ~LoopTest(running)
    /\ audio_analyzer' = IF audio_analyzer.exists THEN Closed(audio_analyzer)
                         ELSE audio_analyzer
    /\ pc' = "exited"
    /\ UNCHANGED <<colorVars, starVars, shootVars, stars, running, pending, dt,
                   AUDIO_AVAILABLE, stream_ok, audio_enabled, trails_enabled,
                   color_mode, spiral_enabled, steer_x, steer_y, rotation,
                   spiral, trail_surf, draws, composited, hud_audio>>

Next == SetupAudio \/ AudioCallback \/ BeginFrame \/ HandleEvent \/ FrameBody \/ Cleanup

Spec == InitMain /\ [][Next]_vars

\* C3 as stated: when the audio libraries import but the input stream cannot
\* be opened or started, the audio feature is disabled once start-up is
\* over: audio_enabled is false and the HUD never shows Audio ON.
C3_AudioDisabledOnStreamFailure ==
    (pc # "setup" /\ AUDIO_AVAILABLE /\ ~stream_ok) =>
        (~audio_enabled /\ hud_audio # "ON")

\* a pixel of the window
OnScreen(p) == p[1] \in 0..(WIDTH - 1) /\ p[2] \in 0..(HEIGHT - 1)

\* the draw calls made for stars (not for shooting stars)
DrawnForStars == {d \in draws : d.kind \in {"circle", "line"}}

\* C4 as stated: every star coordinate handed to a draw call, the centre of
\* the circle and both endpoints of every trail line, lies within
\* [0, width) x [0, height).
C4_Original == \A d \in DrawnForStars : OnScreen(d.from) /\ OnScreen(d.to)

\* C4 amended: the centre of every star circle and the current-position
\* endpoint of every trail line lie within [0, width) x [0, height); the
\* endpoint taken from the trail history is not tested.
C4_Amended == \A d \in DrawnForStars : OnScreen(d.to) /\ (d.kind = "circle" => OnScreen(d.from))

\* a trail line is drawn to an on-screen star from a point outside the window
C4_Witness ==
    \E d \in DrawnForStars : d.kind = "line" /\ OnScreen(d.to) /\ ~OnScreen(d.from)

\* C5: the K_t press that switches trails off clears the trail buffer in
\* that same event, and at the end of every frame run with trails off the
\* buffer is empty: nothing was drawn onto it and it was not composited.
C5_TrailsOffClears ==
    [][/\ (trails_enabled /\ ~trails_enabled') => trail_surf' = 0
       /\ (pc' = "top" /\ ~trails_enabled') =>
             /\ trail_surf' = 0
             /\ ~composited'
             /\ \A d \in draws' : d.surf # "trail"]_vars

\* trails were just switched off in the event loop: the last frame drew onto
\* the trail buffer and composited it, and the buffer is now empty
C5_Witness ==
    /\ pc = "events" /\ ~trails_enabled /\ trail_surf = 0
    /\ composited /\ \E d \in draws : d.surf = "trail"

\* C7: once QUIT, K_q or K_ESCAPE has been processed running stays false and
\* no further frame is started; the frame in progress goes on (events are
\* still handled, the stars are updated and the frame presented), then the
\* loop is left with the analyzer, if there is one, closed.
C7_QuitEndsLoop ==
    [][~running =>
          /\ ~running'
          /\ ~(pc = "top" /\ pc' = "events")
          /\ (pc = "events" /\ pending > 0) =>
                (pc' = "events" /\ pending' \in {pending, pending - 1})
          /\ (pc = "events" /\ pc' # "events") =>
                (pending = 0 /\ pc' = "top" /\ hud_audio' # "none"
                 /\ composited' = trails_enabled
                 /\ \A i \in 1..NUM_STARS :
                       /\ Len(stars'[i].prev) >= 1
                       /\ stars'[i].prev[1] = <<ProjectX(stars'[i], steer_x'),
                                                ProjectY(stars'[i], steer_y'),
                                                stars'[i].z>>)
          /\ (pc # "exited" /\ pc' = "exited") =>
                (pc = "top"
                 /\ (audio_analyzer.exists =>
                        audio_analyzer'.closed /\ audio_analyzer'.stream # "open"))]_vars

\* the program has left the loop after a quit and closed its analyzer
C7_Witness ==
    /\ pc = "exited" /\ ~running /\ audio_analyzer.exists
    /\ audio_analyzer.closed /\ audio_analyzer.stream = "closed"

====
